---- MODULE Spec2Model ----
(***************************************************************************)
(* requests_toolbelt.multipart.encoder: the streaming MultipartEncoder and *)
(* its CustomBytesIO buffer.                                               *)
(*                                                                         *)
(* Bytes are sequences of one-byte tokens ("-", "B", "CR", "LF", "H1",     *)
(* "a1", ...).  An optional value (Python None or a value) is the empty    *)
(* sequence or a one-element sequence.  A field body is a CustomBytesIO    *)
(* made once by readable_data; _current_data refers to that same object,   *)
(* so it is the index of the field in _fields_list (0 for None) and the    *)
(* body cursors live in data_pos.                                          *)
(***************************************************************************)
EXTENDS Integers, Sequences, FiniteSets, TLC

VARIABLES
    boundary_value,   \* self.boundary_value
    _fields_list,     \* self._fields_list: <<[headers, data, known]>>
    data_pos,         \* tell() of each field's body object
    _fields_iter,     \* tuples already yielded by self._fields_iter
    finished,         \* self.finished
    _current_data,    \* self._current_data: 0 (None) or a field index
    _len,             \* self._len: <<>> (None) or <<n>>
    _buffer,          \* self._buffer: [bytes, pos]
    early,            \* a field was left while its body had unread content
    closers,          \* how many times the closing "--\r\n" was written
    nwritten,         \* bytes written to _buffer during the last call
    seps,             \* separators written since the last header (0, 1,
                      \* or 2 for more than one)
    hdrs,             \* indices of the fields whose header was written
    last_write,       \* what the last bytes written to _buffer were
    retracted,        \* <<>> or <<[bytes, from, at, cursor]>>: the retraction
    pulled,           \* bytes read from the bodies during the last call
    unread_in,        \* the unread bytes of _buffer when the last call began
    orig_position,    \* orig_position of the last _load_bytes
    op,               \* last call: "init", "read", "len"
    arg,              \* size argument of the last read: <<>> or <<n>>
    ret,              \* bytes returned by the last read
    lenret,           \* number returned by the last len(): <<>> or <<n>>
    exc,              \* exception raised by the last call ("" if none)
    out,              \* concatenation of everything read so far
    sizes,            \* the size arguments used so far
    nreads,           \* read calls so far
    nlens,            \* len() calls so far
    cb,               \* a stand-alone CustomBytesIO: [bytes, pos]
    cb_written,       \* everything written to cb
    cb_served,        \* everything read from cb
    cb_ops            \* operations applied to cb

vars == <<boundary_value, _fields_list, data_pos, _fields_iter, finished,
          _current_data, _len, _buffer, early, closers, nwritten, seps, hdrs,
          last_write, retracted, pulled, unread_in, orig_position, op, arg,
          ret, lenret, exc, out, sizes, nreads, nlens,
          cb, cb_written, cb_served, cb_ops>>

(***************************************************************************)
(* Bounds.                                                                 *)
(***************************************************************************)
MaxFields == 2
MaxBody == 2
MaxBoundary == 1
MaxSize == 10
MaxReads == 2
MaxFixedReads == 12
MaxLens == 2
MaxCbOps == 5

Min(a, b) == IF a < b THEN a ELSE b
Max(a, b) == IF a > b THEN a ELSE b
Take(s, n) == SubSeq(s, 1, Min(n, Len(s)))
Drop(s, n) == SubSeq(s, n + 1, Len(s))

CRLF == <<"CR", "LF">>

(***************************************************************************)
(* io.BytesIO as CustomBytesIO uses it.                                    *)
(***************************************************************************)
tell(b) == b.pos

\* seek(offset, whence): 0 from the start, 1 from the cursor, 2 from the end;
\* a negative result is clamped to 0.
seek(b, offset, whence) ==
    LET base == IF whence = 0 THEN 0 ELSE IF whence = 1 THEN b.pos ELSE Len(b.bytes)
    IN  [b EXCEPT !.pos = Max(0, base + offset)]

\* truncate(): cut the storage at the cursor.
truncate(b) == [b EXCEPT !.bytes = Take(b.bytes, b.pos)]

\* write(s): overwrite/extend at the cursor, advance the cursor.
write(b, s) ==
    [bytes |-> Take(b.bytes, b.pos) \o s \o Drop(b.bytes, b.pos + Len(s)),
     pos |-> b.pos + Len(s)]

\* The bytes read(size) returns: size <<>> (None) or negative reads to the end.
read_data(b, size) ==
    LET rest == Drop(b.bytes, b.pos)
    IN  IF size = <<>> \/ size[1] < 0 THEN rest ELSE Take(rest, size[1])

\* The buffer after read(size).
read_buf(b, size) == [b EXCEPT !.pos = b.pos + Len(read_data(b, size))]

(***************************************************************************)
(* CustomBytesIO                                                           *)
(***************************************************************************)
_get_end(b) == tell(seek(b, 0, 2))

\* CustomBytesIO.__len__: the unread length.
buf_len(b) == _get_end(b) - tell(b)

\* smart_truncate without the write-back of the unread bytes.
smart_truncate_drop(b) ==
    LET to_be_read == buf_len(b)
        already_read == _get_end(b) - to_be_read
    IN  IF already_read >= to_be_read
        THEN seek(truncate(seek(read_buf(b, <<>>), 0, 0)), 0, 0)
        ELSE b

\* smart_truncate that acts only when more was read than is left.
smart_truncate_strict(b) ==
    LET to_be_read == buf_len(b)
        already_read == _get_end(b) - to_be_read
        old_bytes == read_data(b, <<>>)
    IN  IF already_read > to_be_read
        THEN seek(write(truncate(seek(read_buf(b, <<>>), 0, 0)), old_bytes), 0, 0)
        ELSE b

smart_truncate(b) ==
    LET to_be_read == buf_len(b)
        already_read == _get_end(b) - to_be_read
        old_bytes == read_data(b, <<>>)
    IN  IF already_read >= to_be_read
        THEN seek(write(truncate(seek(read_buf(b, <<>>), 0, 0)), old_bytes), 0, 0)
        ELSE b

(***************************************************************************)
(* Helpers of the module                                                   *)
(***************************************************************************)
\* encode_with: a bytes object is returned as it is, a str is encoded; every
\* character of the framing is one byte, so a token sequence encodes to itself.
encode_with(string) == string

\* readable_data wrapped every body in a CustomBytesIO, which coerce_data
\* returns unchanged: the coerced object is the field's own body object.
coerce_data(i) == i

\* self.boundary = '--{0}'.format(self.boundary_value)
boundary == <<"-", "-">> \o boundary_value

\* The object a body index stands for: a CustomBytesIO over the field's data.
body_io(S, i) == [bytes |-> _fields_list[i].data, pos |-> S.data_pos[i]]

\* requests.utils.super_len: len(o) for an object with __len__ (the unread
\* length of a CustomBytesIO), None (<<>>) for None and for a body that
\* cannot report its length.
super_len(S, i) ==
    IF i = 0 THEN <<>>
    ELSE IF _fields_list[i].known THEN <<buf_len(body_io(S, i))>>
    ELSE <<>>

\* self._buffer.write(s), which returns len(s).
buffer_write(S, s) ==
    [S EXCEPT !._buffer = write(@, s), !.nwritten = @ + Len(s), !.rv = Len(s)]

\* The active body still has unread content.
has_unread(S) ==
    /\ S._current_data # 0
    /\ S.data_pos[S._current_data] < Len(_fields_list[S._current_data].data)

(***************************************************************************)
(* MultipartEncoder                                                        *)
(*                                                                         *)
(* The methods take the object S and give the object they leave; rv is the *)
(* value returned, ret the bytes returned, exc the exception raised.       *)
(* Bind(e, F) is "x = e; F(x)": the local e is computed once.              *)
(***************************************************************************)
Bind(e, F(_)) == CHOOSE y \in {F(x) : x \in {e}} : TRUE

\* _next_tuple over an iterator made anew at each call: it yields the first
\* tuple again.
_next_tuple_restart(S) ==
    IF 0 < Len(_fields_list)
    THEN [S EXCEPT !._fields_iter = 1, !.rv = 1]
    ELSE IF ~S.finished
    THEN [S EXCEPT !._buffer = write(truncate(seek(@, -2, 1)),
                                     encode_with(<<"-", "-", "CR", "LF">>)),
                   !.nwritten = @ + 4, !.closers = @ + 1,
                   !.early = @ \/ has_unread(S),
                   !.retracted =
                       <<[bytes |-> Drop(S._buffer.bytes,
                                         tell(seek(S._buffer, -2, 1))),
                          from |-> S.last_write,
                          at |-> tell(seek(S._buffer, -2, 1)),
                          cursor |-> S.orig_position]>>,
                   !.last_write = "closer", !.rv = 0]
    ELSE [S EXCEPT !.rv = 0]

\* rv is the index of the next tuple, or 0 for the empty tuple.
_next_tuple(S) ==
    IF S._fields_iter < Len(_fields_list)
    THEN [S EXCEPT !._fields_iter = @ + 1, !.rv = S._fields_iter + 1]
    ELSE IF ~S.finished
    THEN [S EXCEPT !._buffer = write(truncate(seek(@, -2, 1)),
                                     encode_with(<<"-", "-", "CR", "LF">>)),
                   !.nwritten = @ + 4, !.closers = @ + 1,
                   !.early = @ \/ has_unread(S),
                   !.retracted =
                       <<[bytes |-> Drop(S._buffer.bytes,
                                         tell(seek(S._buffer, -2, 1))),
                          from |-> S.last_write,
                          at |-> tell(seek(S._buffer, -2, 1)),
                          cursor |-> S.orig_position]>>,
                   !.last_write = "closer", !.rv = 0]
    ELSE [S EXCEPT !.rv = 0]

_load_new_current_data(S) ==
    Bind(_next_tuple(S), LAMBDA t :
        IF t.rv = 0
        THEN [t EXCEPT !.finished = TRUE, !.rv = 0]
        ELSE Bind(buffer_write(t, encode_with(_fields_list[t.rv].headers)),
                  LAMBDA w : [w EXCEPT !._current_data = coerce_data(t.rv),
                                       !.early = @ \/ has_unread(t),
                                       !.hdrs = Append(@, t.rv), !.seps = 0,
                                       !.last_write = "header"]))

\* The first if/elif of _consume_current_data.
consume_body(S, size) ==
    IF S._current_data = 0
    THEN Bind(buffer_write(S, encode_with(boundary)), LAMBDA a :
         Bind(buffer_write(a, encode_with(CRLF)), LAMBDA b :
         Bind(_load_new_current_data([b EXCEPT !.last_write = "boundary"]),
              LAMBDA c :
             [c EXCEPT !.rv = a.rv + b.rv + c.rv])))
    ELSE IF super_len(S, S._current_data) # <<>>
            /\ super_len(S, S._current_data)[1] > 0
    THEN Bind(read_data(body_io(S, S._current_data), size), LAMBDA d :
             buffer_write([S EXCEPT !.data_pos[S._current_data] = @ + Len(d),
                                    !.pulled = @ + Len(d),
                                    !.last_write =
                                        IF d = <<>> THEN @ ELSE "body"], d))
    ELSE [S EXCEPT !.rv = 0]

_consume_current_data(S, size) ==
    Bind(consume_body(S, IF size = <<>> THEN <<-1>> ELSE size), LAMBDA s1 :
        IF super_len(s1, s1._current_data) = <<0>> /\ ~s1.finished
        THEN Bind(buffer_write(s1, encode_with(CRLF \o boundary \o CRLF)),
                  LAMBDA w : [w EXCEPT !.rv = s1.rv + w.rv,
                                       !.seps = Min(@ + 1, 2),
                                       !.last_write = "boundary"])
        ELSE s1)

\* The while loop of _load_bytes.  With size None the first evaluation of
\* `size - written` raises TypeError.
RECURSIVE load_loop(_, _, _)
load_loop(S, size, written) ==
    IF size = <<>>
    THEN [S EXCEPT !.exc = "TypeError"]
    ELSE IF written < size[1]
    THEN Bind(_consume_current_data(S, <<size[1] - written>>), LAMBDA c :
         Bind(_load_new_current_data(c), LAMBDA l :
             IF l.finished THEN l
             ELSE Bind(written + c.rv + l.rv, LAMBDA w : load_loop(l, size, w))))
    ELSE S

\* _load_bytes without the final seek back to orig_position.
_load_bytes_noseek(S, size) ==
    Bind([S EXCEPT !._buffer = smart_truncate(@)], LAMBDA a :
    Bind([a EXCEPT !._buffer = seek(@, 0, 2),
                   !.orig_position = tell(a._buffer)], LAMBDA b :
    Bind(_consume_current_data(b, size), LAMBDA c :
        load_loop(c, size, c.rv))))

_load_bytes(S, size) ==
    Bind([S EXCEPT !._buffer = smart_truncate(@)], LAMBDA a :
    Bind([a EXCEPT !._buffer = seek(@, 0, 2),
                   !.orig_position = tell(a._buffer)], LAMBDA b :
    Bind(_consume_current_data(b, size), LAMBDA c :
    Bind(load_loop(c, size, c.rv), LAMBDA d :
        IF d.exc # "" THEN d
        ELSE [d EXCEPT !._buffer = seek(@, d.orig_position, 0)]))))

\* amt_to_load one byte short.
amt_to_load_short(size, bytes_length) ==
    IF size = <<>> THEN <<>>
    ELSE IF size[1] > bytes_length + 1 THEN <<size[1] - bytes_length - 1>>
    ELSE <<0>>

\* amt_to_load that ignores what the buffer already holds.
amt_to_load_whole(size, bytes_length) == size

\* amt_to_load of read: None stays None.
amt_to_load(size, bytes_length) ==
    IF size = <<>> THEN <<>>
    ELSE IF size[1] > bytes_length THEN <<size[1] - bytes_length>> ELSE <<0>>

read(S, size) ==
    Bind(_load_bytes([S EXCEPT !.unread_in = read_data(S._buffer, <<>>)],
                     amt_to_load(size, buf_len(S._buffer))), LAMBDA l :
        IF l.exc # "" THEN l
        ELSE [l EXCEPT !.ret = read_data(l._buffer, size),
                       !._buffer = read_buf(@, size)])

to_string(S) == read(S, <<>>)

\* The for loop of _calculate_length from field i on; super_len(data) of a
\* body that cannot report its length is None and the addition raises.
RECURSIVE calc_loop(_, _)
calc_loop(S, i) ==
    IF i > Len(_fields_list) THEN S
    ELSE IF super_len(S, i) = <<>> THEN [S EXCEPT !.exc = "TypeError"]
    ELSE Bind([S EXCEPT !._len = <<@[1] + Len(boundary)
                   + Len(_fields_list[i].headers) + super_len(S, i)[1] + 4>>],
              LAMBDA n : calc_loop(n, i + 1))

_calculate_length(S) ==
    Bind(calc_loop([S EXCEPT !._len = <<0>>], 1), LAMBDA l :
        IF l.exc # "" THEN l
        ELSE [l EXCEPT !._len = <<@[1] + Len(boundary) + 4>>])

\* MultipartEncoder.__len__; rv is the number returned.
encoder_len(S) ==
    Bind(IF S._len = <<>> THEN _calculate_length(S) ELSE S, LAMBDA c :
        IF c.exc # "" THEN c ELSE [c EXCEPT !.rv = c._len[1]])

(***************************************************************************)
(* The encoder as a state machine                                          *)
(***************************************************************************)
\* Byte tokens of the field headers and bodies, one row per field.
HeaderTok == <<"H1", "H2", "H3", "H4">>
BodyTok == << <<"a1", "a2", "a3", "a4">>, <<"b1", "b2", "b3", "b4">>,
              <<"c1", "c2", "c3", "c4">>, <<"d1", "d2", "d3", "d4">> >>

\* f.render_headers(): the header lines, closed by an empty line.
render_headers(i) == <<HeaderTok[i], "CR", "LF">>

\* The boundary given by the user (a generated one is as opaque).
BoundaryValues == {[j \in 1..k |-> "B"] : k \in 1..MaxBoundary}

\* A read size that exceeds every stream of the model.
BigSize == (MaxFields + 1) * (MaxBoundary + MaxBody + 12)

ReadSizes == (0..MaxSize) \cup {BigSize}

AllKnown == \A i \in 1..Len(_fields_list) : _fields_list[i].known

\* The encoder object, and the object at the start of a call.
Self ==
    [_buffer |-> _buffer, finished |-> finished, _current_data |-> _current_data,
     _fields_iter |-> _fields_iter, data_pos |-> data_pos, _len |-> _len,
     early |-> early, closers |-> closers, nwritten |-> 0, seps |-> seps,
     hdrs |-> hdrs, last_write |-> last_write, retracted |-> retracted,
     pulled |-> 0, unread_in |-> <<>>, orig_position |-> 0, exc |-> "",
     rv |-> 0, ret |-> <<>>]

\* MultipartEncoder.__init__ with _render_headers.
Init ==
    /\ boundary_value \in BoundaryValues
    /\ \E k \in 0..MaxFields :
         \E bl \in [1..k -> 0..MaxBody], kn \in [1..k -> BOOLEAN] :
           _fields_list = [i \in 1..k |->
                             [headers |-> render_headers(i),
                              data |-> Take(BodyTok[i], bl[i]),
                              known |-> kn[i]]]
    /\ data_pos = [i \in 1..Len(_fields_list) |-> 0]
    /\ _fields_iter = 0
    /\ finished = FALSE
    /\ _current_data = 0
    /\ _len = <<>>
    /\ _buffer = [bytes |-> <<>>, pos |-> 0]
    /\ early = FALSE
    /\ closers = 0
    /\ nwritten = 0
    /\ seps = 0
    /\ hdrs = <<>>
    /\ last_write = ""
    /\ retracted = <<>>
    /\ pulled = 0
    /\ unread_in = <<>>
    /\ orig_position = 0
    /\ op = "init"
    /\ arg = <<>>
    /\ ret = <<>>
    /\ lenret = <<>>
    /\ exc = ""
    /\ out = <<>>
    /\ sizes = {}
    /\ nreads = 0
    /\ nlens = 0
    /\ cb = [bytes |-> <<>>, pos |-> 0]
    /\ cb_written = <<>>
    /\ cb_served = <<>>
    /\ cb_ops = 0

\* The encoder's own attributes after a call that left it as r.
Becomes(r) ==
    /\ _buffer' = r._buffer
    /\ finished' = r.finished
    /\ _current_data' = r._current_data
    /\ _fields_iter' = r._fields_iter
    /\ data_pos' = r.data_pos
    /\ _len' = r._len
    /\ early' = r.early
    /\ closers' = r.closers
    /\ nwritten' = r.nwritten
    /\ seps' = r.seps
    /\ hdrs' = r.hdrs
    /\ last_write' = r.last_write
    /\ retracted' = r.retracted
    /\ pulled' = r.pulled
    /\ unread_in' = r.unread_in
    /\ orig_position' = r.orig_position
    /\ exc' = r.exc
    /\ UNCHANGED <<boundary_value, _fields_list>>

\* A caller may mix sizes for MaxReads calls and may go on with one and the
\* same size for MaxFixedReads calls.
MayRead(size) ==
    /\ AllKnown
    /\ \/ nreads < MaxReads
       \/ sizes = {size} /\ nreads < MaxFixedReads

DoRead(size) ==
    \E r \in {read(Self, size)} :
        /\ Becomes(r)
        /\ op' = "read"
        /\ arg' = size
        /\ ret' = r.ret
        /\ out' = out \o r.ret
        /\ sizes' = sizes \cup {size}
        /\ nreads' = nreads + 1
        /\ UNCHANGED <<lenret, nlens, cb, cb_written, cb_served, cb_ops>>

\* encoder.read(n)
Read ==
    \E n \in ReadSizes : MayRead(<<n>>) /\ DoRead(<<n>>)

\* encoder.read() and encoder.to_string()
ReadAll ==
    MayRead(<<>>) /\ DoRead(<<>>)

\* len(encoder)
LenCall ==
    /\ nlens < MaxLens
    /\ \E r \in {encoder_len(Self)} :
           /\ Becomes(r)
           /\ op' = "len"
           /\ lenret' = IF r.exc = "" THEN <<r.rv>> ELSE <<>>
           /\ nlens' = nlens + 1
           /\ UNCHANGED <<arg, ret, out, sizes, nreads,
                          cb, cb_written, cb_served, cb_ops>>

Next == Read \/ ReadAll \/ LenCall

Spec == Init /\ [][Next]_vars

(***************************************************************************)
(* The stand-alone buffer: writes at the end as _load_bytes makes them,    *)
(* reads at the cursor, compaction.                                        *)
(***************************************************************************)
CbChunks == {<<"x">>, <<"y", "z">>}
CbSizes == {<<>>, <<1>>, <<2>>}

BufInit == Init /\ _fields_list = <<>>

EncoderUntouched ==
    UNCHANGED <<boundary_value, _fields_list, data_pos, _fields_iter, finished,
                _current_data, _len, _buffer, early, closers, nwritten, seps,
                hdrs, last_write, retracted, pulled, unread_in, orig_position,
                arg, ret, lenret, exc, out, sizes, nreads, nlens>>

\* seek(0, 2); write(s); seek(orig_position, 0)
CbWrite ==
    \E s \in CbChunks :
        /\ cb_ops < MaxCbOps
        /\ cb' = seek(write(seek(cb, 0, 2), s), tell(cb), 0)
        /\ cb_written' = cb_written \o s
        /\ cb_ops' = cb_ops + 1
        /\ op' = "write"
        /\ UNCHANGED cb_served
        /\ EncoderUntouched

CbRead ==
    \E n \in CbSizes :
        /\ cb_ops < MaxCbOps
        /\ cb' = read_buf(cb, n)
        /\ cb_served' = cb_served \o read_data(cb, n)
        /\ cb_ops' = cb_ops + 1
        /\ op' = "read"
        /\ UNCHANGED cb_written
        /\ EncoderUntouched

CbTruncate ==
    /\ cb_ops < MaxCbOps
    /\ cb' = smart_truncate(cb)
    /\ cb_ops' = cb_ops + 1
    /\ op' = "smart_truncate"
    /\ UNCHANGED <<cb_written, cb_served>>
    /\ EncoderUntouched

BufNext == CbWrite \/ CbRead \/ CbTruncate

BufSpec == BufInit /\ [][BufNext]_vars

(***************************************************************************)
(* A caller that reads with one fixed size n for ever.  Of the caller's    *)
(* log only the parity of the number of calls is kept, which tells a call  *)
(* that leaves the encoder as it was from no call at all.  Once a body is  *)
(* exhausted every call appends at least a separator, so with a size below *)
(* the separator's length the buffer grows without bound: the sizes start  *)
(* at that length.                                                         *)
(***************************************************************************)
LiveInit == Init /\ AllKnown

LiveSizes == {n \in ReadSizes : n >= Len(boundary) + 4}

LiveRead ==
    \E n \in LiveSizes :
        /\ sizes \subseteq {<<n>>}
        /\ \E r \in {read(Self, <<n>>)} :
               /\ Becomes(r)
               /\ op' = "read"
               /\ arg' = <<n>>
               /\ ret' = r.ret
               /\ sizes' = {<<n>>}
               /\ nreads' = (nreads + 1) % 2
               /\ UNCHANGED <<out, lenret, nlens,
                              cb, cb_written, cb_served, cb_ops>>

LiveSpec == LiveInit /\ [][LiveRead]_vars /\ WF_vars(LiveRead)

(***************************************************************************)
(* Properties                                                              *)
(***************************************************************************)
\* The encoder as __init__ leaves it.
Fresh ==
    [_buffer |-> [bytes |-> <<>>, pos |-> 0], finished |-> FALSE,
     _current_data |-> 0, _fields_iter |-> 0,
     data_pos |-> [i \in 1..Len(_fields_list) |-> 0], _len |-> <<>>,
     early |-> FALSE, closers |-> 0, nwritten |-> 0, seps |-> 0,
     hdrs |-> <<>>, last_write |-> "", retracted |-> <<>>, pulled |-> 0,
     unread_in |-> <<>>, orig_position |-> 0, exc |-> "",
     rv |-> 0, ret |-> <<>>]

\* The multipart body of fields i.. : each part's boundary line, header and
\* body, then the closing line.
RECURSIVE WireFrom(_)
WireFrom(i) ==
    IF i > Len(_fields_list)
    THEN boundary \o <<"-", "-">> \o CRLF
    ELSE boundary \o CRLF \o _fields_list[i].headers \o _fields_list[i].data
         \o CRLF \o WireFrom(i + 1)

Wire == WireFrom(1)

\* The last call was a read(n), n >= 1, of an encoder that is finished, and
\* it returned nothing.
Exhausted ==
    /\ op = "read" /\ exc = "" /\ arg # <<>> /\ arg[1] >= 1
    /\ finished /\ ret = <<>>

\* Every read so far had a size.
AllSized == <<>> \notin sizes

\* Every read so far had the same size n >= 1.
FixedSize == \E n \in ReadSizes \ {0} : sizes = {<<n>>}

\* C1: one unbounded read() of a fresh encoder returns the whole multipart
\* body, raises nothing and leaves the encoder finished.
C1_UnboundedReadIsWire ==
    (op = "read" /\ arg = <<>> /\ nreads = 1)
        => (exc = "" /\ ret = Wire /\ finished)

\* C2: whatever sizes the stream was read with, once it is exhausted the
\* concatenation of the results is the one a single read of everything gives.
C2_ChunkSizeIndependent ==
    (Exhausted /\ AllSized) => out = read(Fresh, <<BigSize>>).ret

\* C3: when a stream of bodies of known length has been read to exhaustion
\* with one fixed size, the number of bytes read is len() of the fresh encoder.
C3_LenIsStreamLength ==
    (Exhausted /\ FixedSize /\ AllKnown) => Len(out) = encoder_len(Fresh).rv

\* C4: read(n), n >= 1, returns exactly n bytes, or fewer when the encoder
\* is finished and the buffer held fewer than n unread bytes.
C4_ExactUnlessFinished ==
    (op = "read" /\ exc = "" /\ arg # <<>> /\ arg[1] >= 1)
        => \/ Len(ret) = arg[1]
           \/ Len(ret) < arg[1] /\ finished /\ buf_len(_buffer) = 0

\* A read(n) that came back short and not empty, from an unfinished stream
\* that the call finished.
C4_Witness ==
    /\ op = "read" /\ exc = "" /\ arg # <<>>
    /\ 0 < Len(ret) /\ Len(ret) < arg[1]
    /\ finished /\ closers = 1 /\ nwritten > 0

\* C5: a caller that keeps reading with a fixed size n >= 1 eventually finds
\* the encoder finished and gets the empty result.
C5_Terminates == <>(finished /\ op = "read" /\ ret = <<>>)

\* C6: once finished, the encoder stays finished and a further read neither
\* appends to the buffer nor writes the closing sequence again.
C6_FinishedIsTerminal ==
    [][(finished /\ nreads' = nreads + 1)
         => (finished' /\ nwritten' = 0 /\ closers' = closers)]_vars

\* Every field's header and whole body have been written.
FullyFramed ==
    /\ _fields_iter = Len(_fields_list)
    /\ \A i \in 1..Len(_fields_list) : data_pos[i] = Len(_fields_list[i].data)

\* C7: finished holds exactly when every field is fully framed and the
\* closing boundary has been written.
C7_FinishedIffFramed == finished <=> (FullyFramed /\ closers >= 1)

\* C8: len() of an encoder with a body of unknown length fails on every
\* call and never returns a number.
C8_LenAlwaysFails ==
    (op = "len" /\ ~AllKnown) => (exc # "" /\ lenret = <<>>)

\* C9: over any interleaving of writes, reads and compactions of a buffer,
\* the bytes served followed by the unread region are the bytes written.
C9_CompactionKeepsUnread ==
    cb_served \o read_data(cb, <<>>) = cb_written

\* A compaction that dropped a consumed prefix and kept unread bytes.
C9_Witness ==
    /\ op = "smart_truncate" /\ cb.pos = 0
    /\ cb_served # <<>> /\ cb.bytes # <<>>
    /\ Len(cb.bytes) < Len(cb_written)

\* C10: the next field is activated, or the closing sequence written, only
\* when the active body has no unread content left.
C10_LeavesFieldWhenExhausted == ~early

\* C11: after a body is exhausted the separator is written once before the
\* next header or the closer, however many reads happen in between.
C11_SeparatorOnce == seps <= 1

\* C12: the two bytes the closing sequence replaces are the CRLF that ends
\* the last boundary line (separator or opening line), never header or body
\* bytes.
C12_RetractsBoundaryCRLF ==
    retracted # <<>>
        => (retracted[1].bytes = CRLF /\ retracted[1].from = "boundary")

\* C13: a read(n) of a started encoder whose buffer already holds n unread
\* bytes appends nothing, pulls nothing from a body and changes neither the
\* active field nor finished.
C13_NoTopUpWhenBuffered ==
    [][(nreads >= 1 /\ nreads' = nreads + 1 /\ arg' # <<>>
          /\ buf_len(_buffer) >= arg'[1])
         => (nwritten' = 0 /\ pulled' = 0
               /\ _current_data' = _current_data /\ finished' = finished)]_vars

\* The longest header of the field list.
LongestHeader ==
    LET hs == {Len(_fields_list[i].headers) : i \in 1..Len(_fields_list)} \cup {0}
    IN  CHOOSE m \in hs : \A x \in hs : x <= m

\* A bound on the buffer that depends on the read size, the boundary and the
\* longest header only: four times a request, two separators and a header.
BufferBound(n) == 4 * (n + 2 * (Len(boundary) + 4) + LongestHeader)

\* C14: while the stream is read with one fixed size n, the bytes held in
\* the buffer between calls stay below a bound that depends on n, the
\* boundary and the longest header only.
C14_BufferBounded ==
    (op = "read" /\ exc = "" /\ FixedSize)
        => Len(_buffer.bytes) <= BufferBound(arg[1])

\* C15: one read(n) pulls from the bodies at most the deficit
\* max(0, n - unread) it found at entry.
C15_LazyPull ==
    (op = "read" /\ arg # <<>>)
        => pulled <= Max(0, arg[1] - Len(unread_in))

\* A read that pulled exactly its deficit and left the body partly unread.
C15_Witness ==
    /\ op = "read" /\ exc = "" /\ arg # <<>> /\ nreads >= 2
    /\ pulled > 0 /\ pulled = arg[1] - Len(unread_in)
    /\ _current_data # 0
    /\ data_pos[_current_data] < Len(_fields_list[_current_data].data)

\* C16: smart_truncate acts exactly when the consumed prefix is at least as
\* long as the unread suffix; then the storage becomes the unread suffix and
\* the cursor 0, otherwise storage and cursor are left as they were.
C16_CompactsExactlyWhenHalfRead ==
    [][(op' = "smart_truncate" /\ cb_ops' = cb_ops + 1)
         => IF cb.pos >= Len(cb.bytes) - cb.pos
            THEN cb' = [bytes |-> Drop(cb.bytes, cb.pos), pos |-> 0]
            ELSE cb' = cb]_vars

\* A compaction that acted: the storage is the unread suffix of what was
\* written, shorter than it, and the cursor is 0.
C16_Witness ==
    /\ op = "smart_truncate" /\ cb.pos = 0 /\ cb.bytes # <<>>
    /\ cb_served # <<>> /\ cb.bytes = Drop(cb_written, Len(cb_served))

\* C17: after a completed read the cursor is within the storage and stands
\* where it stood at entry (after compaction) plus what was served; the bytes
\* unread at entry are served first; the retraction cut above the cursor.
C17_TopUpAppendOnly ==
    /\ (op = "read" /\ exc = "")
         => /\ _buffer.pos <= Len(_buffer.bytes)
            /\ _buffer.pos = orig_position + Len(ret)
            /\ Take(ret, Len(unread_in)) = Take(unread_in, Len(ret))
    /\ retracted # <<>> => retracted[1].at > retracted[1].cursor

\* A read that found unread bytes, topped up with a retraction and served
\* more than the bytes it found.
C17_Witness ==
    /\ op = "read" /\ exc = "" /\ unread_in # <<>>
    /\ Len(ret) > Len(unread_in)
    /\ nwritten > 0 /\ last_write = "closer" /\ retracted # <<>>

\* C18: the headers written so far are those of fields 1, 2, ... in that
\* order, each once, and all of them once the encoder is finished.
C18_HeadersOnceInOrder ==
    /\ hdrs = [i \in 1..Len(hdrs) |-> i]
    /\ Len(hdrs) <= Len(_fields_list)
    /\ finished => Len(hdrs) = Len(_fields_list)

\* Several reads framed two fields and finished.
C18_Witness ==
    /\ finished /\ nreads >= 2 /\ exc = ""
    /\ Len(_fields_list) = 2 /\ hdrs = <<1, 2>>

\* C19: for bodies of known length len() returns the value it returns on a
\* fresh encoder, however much has been read before the call.
C19_LenIgnoresProgress ==
    (op = "len" /\ exc = "" /\ AllKnown) => lenret = <<encoder_len(Fresh).rv>>

====
